---- MODULE Spec2Model ----
(***************************************************************************)
(* The self-healing workflow of self_healing_agent: the fix loop           *)
(* (orchestrator.py), its verification stages (subagents/                  *)
(* build_verification) and the tools they call (subagents/tools/           *)
(* opa_tools.py, loop_control.py, build_log_storage.py), with config.py.   *)
(*                                                                         *)
(* The stages are ADK agents whose behaviour is given by their instruction *)
(* text; each stage action below is the translation of that instruction,   *)
(* and each tool operator the translation of the tool's Python code.       *)
(* Outcomes of external subprocesses (terraform, opa) and of the edits the *)
(* remediation agents make are nondeterministic inputs.                    *)
(***************************************************************************)
EXTENDS Integers, Sequences, FiniteSets, TLC

\* ------------------------------------------------------------------------
\* Bounds of the model
\* ------------------------------------------------------------------------
MaxBase == 1
MaxErrs == 2
MaxViol == 3
MaxPkgs == 2
\* Where the loop has no iteration limit, the counters of completed
\* iterations are followed up to this value and held there.
MaxCount == 2

\* ------------------------------------------------------------------------
\* JSON values as Python sees them after json.loads: tagged records.
\* A dict is a sequence of <<key, value>> pairs in insertion order.
\* ------------------------------------------------------------------------
JStr(s) == [t |-> "str", v |-> s]
JInt(n) == [t |-> "int", v |-> n]
JNull == [t |-> "null", v |-> 0]
JList(s) == [t |-> "list", v |-> s]
JDict(pairs) == [t |-> "dict", v |-> pairs]

IsDict(x) == x.t = "dict"
IsList(x) == x.t = "list"
IsStr(x) == x.t = "str"

\* The characters of the strings that occur in the model.
Chars(s) ==
  CASE s = "" -> <<>>
    [] s = "a" -> <<"a">>
    [] s = "b" -> <<"b">>
    [] s = "c" -> <<"c">>
    [] s = "d" -> <<"d">>
    [] s = "e" -> <<"e">>
    [] s = "ab" -> <<"a", "b">>
    [] s = "p1" -> <<"p", "1">>
    [] s = "p2" -> <<"p", "2">>
    [] s = "p3" -> <<"p", "3">>
    [] s = "deny" -> <<"d", "e", "n", "y">>
    [] s = "violation" -> <<"v", "i", "o", "l", "a", "t", "i", "o", "n">>
    [] s = "other" -> <<"o", "t", "h", "e", "r">>
    [] s = "value" -> <<"v", "a", "l", "u", "e">>
    [] s = "result" -> <<"r", "e", "s", "u", "l", "t">>
    [] s = "expressions" -> <<"e", "x", "p", "r", "e", "s", "s", "i", "o", "n", "s">>

\* Python: needle in hay, for two str values (substring test).
IsSubstring(needle, hay) ==
  LET n == Chars(needle)
      h == Chars(hay)
  IN \E i \in 0..(Len(h) - Len(n)) : \A j \in 1..Len(n) : h[i + j] = n[j]

DictKeys(d) == {d.v[i][1] : i \in 1..Len(d.v)}
DictGet(d, k) == LET i == CHOOSE i \in 1..Len(d.v) : d.v[i][1] = k IN d.v[i][2]

\* Python: k in x, for a str k.  ok = FALSE stands for a raised TypeError.
PyIn(k, x) ==
  CASE IsDict(x) -> [ok |-> TRUE, val |-> k \in DictKeys(x)]
    [] IsList(x) -> [ok |-> TRUE, val |-> \E i \in 1..Len(x.v) : x.v[i] = JStr(k)]
    [] IsStr(x) -> [ok |-> TRUE, val |-> IsSubstring(k, x.v)]
    [] OTHER -> [ok |-> FALSE, val |-> FALSE]

\* Python: for e in x.  A dict yields its keys, a str its characters;
\* ok = FALSE stands for a raised TypeError (not iterable).
PyIter(x) ==
  CASE IsList(x) -> [ok |-> TRUE, items |-> x.v]
    [] IsDict(x) -> [ok |-> TRUE, items |-> [i \in 1..Len(x.v) |-> JStr(x.v[i][1])]]
    [] IsStr(x) -> [ok |-> TRUE, items |-> [i \in 1..Len(Chars(x.v)) |-> JStr(Chars(x.v)[i])]]
    [] OTHER -> [ok |-> FALSE, items |-> <<>>]

\* ------------------------------------------------------------------------
\* parse_opa_json (opa_tools.py).  The accumulator holds the violations
\* list and whether an exception was raised inside the try block; the
\* except clause catches it and the list built so far is returned.
\* ------------------------------------------------------------------------
Acc0 == [violations |-> <<>>, raised |-> FALSE]
Raise(acc) == [acc EXCEPT !.raised = TRUE]

Violation(pkg_name, msg) == [package |-> pkg_name, message |-> msg, severity |-> "high"]

RECURSIVE AppendEach(_, _, _, _)
AppendEach(acc, pkg_name, msgs, i) ==
  IF i > Len(msgs) THEN acc
  ELSE AppendEach([acc EXCEPT !.violations = Append(@, Violation(pkg_name, msgs[i]))],
                  pkg_name, msgs, i + 1)

\* A variant of PkgStep that knows the deny rule only.
PkgStepDenyOnly(acc, pkg_name, pkg_content) ==
  IF ~IsDict(pkg_content) THEN acc
  ELSE IF "deny" \in DictKeys(pkg_content)
       THEN LET denials == DictGet(pkg_content, "deny")
            IN IF IsList(denials) THEN AppendEach(acc, pkg_name, denials.v, 1) ELSE acc
       ELSE acc
PkgStep(acc, pkg_name, pkg_content) ==
  IF ~IsDict(pkg_content) THEN acc
  ELSE IF "deny" \in DictKeys(pkg_content)
       THEN LET denials == DictGet(pkg_content, "deny")
            IN IF IsList(denials) THEN AppendEach(acc, pkg_name, denials.v, 1) ELSE acc
       ELSE IF "violation" \in DictKeys(pkg_content)
            THEN LET it == PyIter(DictGet(pkg_content, "violation"))
                 IN IF it.ok THEN AppendEach(acc, pkg_name, it.items, 1) ELSE Raise(acc)
            ELSE acc

RECURSIVE PkgLoop(_, _, _)
PkgLoop(acc, pairs, i) ==
  IF acc.raised \/ i > Len(pairs) THEN acc
  ELSE PkgLoop(PkgStep(acc, pairs[i][1], pairs[i][2]), pairs, i + 1)

\* expr.get('value', {}) then value.items(): both need a dict.
ExprStep(acc, expr) ==
  IF ~IsDict(expr) THEN Raise(acc)
  ELSE LET value == IF "value" \in DictKeys(expr) THEN DictGet(expr, "value") ELSE JDict(<<>>)
       IN IF ~IsDict(value) THEN Raise(acc) ELSE PkgLoop(acc, value.v, 1)

RECURSIVE ExprLoop(_, _, _)
ExprLoop(acc, exprs, i) ==
  IF acc.raised \/ i > Len(exprs) THEN acc
  ELSE ExprLoop(ExprStep(acc, exprs[i]), exprs, i + 1)

\* if 'expressions' in res: for expr in res['expressions']: ...
\* res['expressions'] raises TypeError unless res is a dict.
ResStep(acc, res) ==
  LET has == PyIn("expressions", res)
  IN IF ~has.ok THEN Raise(acc)
     ELSE IF ~has.val THEN acc
     ELSE IF ~IsDict(res) THEN Raise(acc)
     ELSE LET it == PyIter(DictGet(res, "expressions"))
          IN IF it.ok THEN ExprLoop(acc, it.items, 1) ELSE Raise(acc)

RECURSIVE ResLoop(_, _, _)
ResLoop(acc, ress, i) ==
  IF acc.raised \/ i > Len(ress) THEN acc
  ELSE ResLoop(ResStep(acc, ress[i]), ress, i + 1)

ParseBody(opa_output) ==
  LET has == PyIn("result", opa_output)
  IN IF ~has.ok THEN Raise(Acc0)
     ELSE IF ~has.val THEN Acc0
     ELSE IF ~IsDict(opa_output) THEN Raise(Acc0)
     ELSE LET it == PyIter(DictGet(opa_output, "result"))
          IN IF it.ok THEN ResLoop(Acc0, it.items, 1) ELSE Raise(Acc0)

\* The call as its caller sees it: the returned list, and whether an
\* exception left the function (the except clause catches every Exception).
parse_opa_json(opa_output) ==
  LET acc == ParseBody(opa_output)
  IN [returned |-> acc.violations, propagated |-> FALSE, caught |-> acc.raised]

\* ------------------------------------------------------------------------
\* config.py: get_max_iterations.  The environment either lacks
\* MAX_ITERATIONS or holds a text, modelled as its sequence of characters.
\* ------------------------------------------------------------------------
Digits == <<"0", "1", "2", "3", "4", "5", "6", "7", "8", "9">>
DigitValue(c) == (CHOOSE i \in 1..10 : Digits[i] = c) - 1
IsDigit(c) == \E i \in 1..10 : Digits[i] = c

RECURSIVE DigitsValue(_, _)
DigitsValue(cs, n) == IF n = 0 THEN 0 ELSE 10 * DigitsValue(cs, n - 1) + DigitValue(cs[n])

\* Python int(text): an optional sign followed by at least one digit,
\* anything else raises ValueError (ok = FALSE).
PyInt(cs) ==
  LET signed == Len(cs) > 0 /\ cs[1] \in {"-", "+"}
      body == IF signed THEN Tail(cs) ELSE cs
  IN IF Len(body) > 0 /\ \A i \in 1..Len(body) : IsDigit(body[i])
     THEN [ok |-> TRUE, val |-> IF signed /\ cs[1] = "-" THEN 0 - DigitsValue(body, Len(body))
                                ELSE DigitsValue(body, Len(body))]
     ELSE [ok |-> FALSE, val |-> 0]

DefaultMaxIterations == 5
DefaultMaxIterationsText == <<"5">>

get_max_iterations(environ) ==
  LET text == IF environ.present THEN environ.text ELSE DefaultMaxIterationsText
      parsed == PyInt(text)
  IN IF parsed.ok THEN parsed.val ELSE DefaultMaxIterations

\* orchestrator.py: max_iterations=get_max_iterations() * 2
LoopMaxIterations(environ) == get_max_iterations(environ) * 2

RECURSIVE IntText(_)
IntText(n) == IF n < 10 THEN <<Digits[n + 1]>> ELSE Append(IntText(n \div 10), Digits[(n % 10) + 1])

\* The settings of MAX_ITERATIONS the workflow is started with: absent,
\* not an integer, or a positive integer.
Environs ==
  {[present |-> FALSE, text |-> <<>>], [present |-> TRUE, text |-> <<"x">>]}
  \cup {[present |-> TRUE, text |-> IntText(n)] : n \in 1..MaxBase}

\* ------------------------------------------------------------------------
\* Outcomes of the external subprocesses (subprocess.run): the call raises
\* an OSError, or the process exits with a return code.
\* ------------------------------------------------------------------------
ProcOutcomes ==
  {[raised |-> TRUE, rc |-> 1], [raised |-> FALSE, rc |-> 0], [raised |-> FALSE, rc |-> 1]}

\* terraform validate -json: missing = stderr+stdout holds "Missing required
\* provider" or "provider registry.terraform.io"; parseable = stdout is JSON.
ValidateOutcomes ==
  {[raised |-> TRUE, rc |-> 1, missing |-> FALSE, parseable |-> FALSE]}
  \cup {[raised |-> FALSE, rc |-> r, missing |-> m, parseable |-> p] :
          r \in {0, 1}, m \in BOOLEAN, p \in BOOLEAN}

\* terraform init: dotdir = the .terraform directory exists afterwards
\* (always after a successful init, possibly after a failed one).
InitOutcomes ==
  {[raised |-> TRUE, rc |-> 1, dotdir |-> FALSE],
   [raised |-> FALSE, rc |-> 0, dotdir |-> TRUE],
   [raised |-> FALSE, rc |-> 1, dotdir |-> FALSE],
   [raised |-> FALSE, rc |-> 1, dotdir |-> TRUE]}

\* One started subprocess: its command, how it ended and, for validate,
\* whether its output held a missing-provider text.
Proc(cmd, o) ==
  [cmd |-> cmd, raised |-> o.raised, rc |-> o.rc,
   missing |-> IF cmd = "validate" THEN o.missing ELSE FALSE]

\* ------------------------------------------------------------------------
\* validate_terraform (opa_tools.py).  v1, i, v2 are the outcomes of the
\* first validate, of init and of the second validate, used only if the
\* code reaches that subprocess.  The result carries what the caller sees
\* (success, error, output), the subprocesses started, and whether
\* .terraform exists afterwards.
\* ------------------------------------------------------------------------
ToolException(procs, dot) ==
  [success |-> FALSE, error |-> "exception", output |-> "none", stderr |-> FALSE,
   procs |-> procs, dot |-> dot]

\* A variant of ValidateReturn that reports success whenever the check ran.
ValidateReturnAlwaysOk(v, procs, dot) ==
  [success |-> ~v.raised, error |-> "", output |-> IF v.parseable THEN "json" ELSE "raw",
   stderr |-> TRUE, procs |-> procs, dot |-> dot]
ValidateReturn(v, procs, dot) ==
  [success |-> (v.rc = 0), error |-> "", output |-> IF v.parseable THEN "json" ELSE "raw",
   stderr |-> TRUE, procs |-> procs, dot |-> dot]

\* A variant of NeedsInit that re-initialises after any failed check.
NeedsInitOnAnyFailure(v) == v.rc # 0
NeedsInit(v) == v.rc # 0 /\ v.missing

validate_terraform(dot, v1, i, v2) ==
  LET p1 == <<Proc("validate", v1)>>
      p2 == Append(p1, Proc("init", i))
      p3 == Append(p2, Proc("validate", v2))
      dot2 == dot \/ i.dotdir
  IN IF v1.raised THEN ToolException(p1, dot)
     ELSE IF NeedsInit(v1)
          THEN IF i.raised THEN ToolException(p2, dot2)
               ELSE IF i.rc = 0
                    THEN IF v2.raised THEN ToolException(p3, dot2)
                         ELSE ValidateReturn(v2, p3, dot2)
                    ELSE [success |-> FALSE, error |-> "Terraform init failed", output |-> "none",
                          stderr |-> TRUE, procs |-> p2, dot |-> dot2]
          ELSE ValidateReturn(v1, p1, dot)

Cmds(procs) == {procs[n].cmd : n \in 1..Len(procs)}

\* The runs of one validate_terraform call: an outcome is chosen for each
\* subprocess the call starts (a subprocess that is not started has none,
\* written as the first outcome of its set).
NoInit == [raised |-> TRUE, rc |-> 1, dotdir |-> FALSE]
NoValidate == [raised |-> TRUE, rc |-> 1, missing |-> FALSE, parseable |-> FALSE]

ValidateRuns ==
  {run \in ValidateOutcomes \X InitOutcomes \X ValidateOutcomes :
     LET procs == validate_terraform(FALSE, run[1], run[2], run[3]).procs
     IN /\ Len(procs) >= 2 \/ run[2] = NoInit
        /\ Len(procs) >= 3 \/ run[3] = NoValidate}

\* ------------------------------------------------------------------------
\* run_opa_eval (opa_tools.py).  i, p, s, o are the outcomes of terraform
\* init, plan, show and of opa eval; w tells whether writing tfplan.json
\* raised.  keys is the set of state keys the call has written.
\* ------------------------------------------------------------------------
MsgNames == <<"a", "b", "c", "d", "e">>

\* What opa eval prints for a policy package p1 whose deny rule holds k messages.
OpaOutput(k) ==
  JDict(<< <<"result", JList(<< JDict(<< <<"expressions", JList(<< JDict(<<
    <<"value", JDict(<< <<"p1", JDict(<< <<"deny", JList([n \in 1..k |-> JStr(MsgNames[n])])>> >>)>> >>)>>
  >>) >>)>> >>) >>)>> >>)

OpaOutcomes ==
  {[raised |-> TRUE, rc |-> 1, parseable |-> FALSE, json |-> JNull],
   [raised |-> FALSE, rc |-> 1, parseable |-> FALSE, json |-> JNull],
   [raised |-> FALSE, rc |-> 0, parseable |-> FALSE, json |-> JNull]}
  \cup {[raised |-> FALSE, rc |-> 0, parseable |-> TRUE, json |-> OpaOutput(k)] : k \in 0..MaxViol}

OpaFailure(error, procs, dot, keys) ==
  [success |-> FALSE, error |-> error, has_output |-> FALSE, opa_output |-> JNull,
   procs |-> procs, dot |-> dot, keys |-> keys]

\* A variant of run_opa_eval that goes on to the conversion when the plan
\* step exited non-zero, so that the plan file of an earlier call is used.
run_opa_eval_reusing_plan(dot, i, p, s, w, o) ==
  LET p0 == IF dot THEN <<>> ELSE <<Proc("init", i)>>
      dot1 == IF dot THEN dot ELSE i.dotdir
      k0 == IF dot THEN {} ELSE {"terraform_initialized"}
      p1 == Append(p0, Proc("plan", p))
      k1 == k0 \cup {"tfplan_path"}
      p2 == Append(p1, Proc("show", s))
      k2 == k1 \cup {"tfplan_json_path"}
      p3 == Append(p2, Proc("opa", o))
  IN IF ~dot /\ i.raised THEN OpaFailure("exception", p0, dot1, {})
     ELSE IF ~dot /\ i.rc # 0 THEN OpaFailure("Terraform init failed", p0, dot1, {})
     ELSE IF p.raised THEN OpaFailure("exception", p1, dot1, k0)
     ELSE IF s.raised THEN OpaFailure("exception", p2, dot1, k1)
     ELSE IF s.rc # 0 THEN OpaFailure("Terraform show failed", p2, dot1, k1)
     ELSE IF w THEN OpaFailure("exception", p2, dot1, k1)
     ELSE IF o.raised THEN OpaFailure("exception", p3, dot1, k2)
     ELSE IF o.rc # 0 THEN OpaFailure("OPA evaluation failed", p3, dot1, k2)
     ELSE IF ~o.parseable THEN OpaFailure("exception", p3, dot1, k2)
     ELSE [success |-> TRUE, error |-> "", has_output |-> TRUE, opa_output |-> o.json,
           procs |-> p3, dot |-> dot1, keys |-> k2]
run_opa_eval(dot, i, p, s, w, o) ==
  LET p0 == IF dot THEN <<>> ELSE <<Proc("init", i)>>
      dot1 == IF dot THEN dot ELSE i.dotdir
      k0 == IF dot THEN {} ELSE {"terraform_initialized"}
      p1 == Append(p0, Proc("plan", p))
      k1 == k0 \cup {"tfplan_path"}
      p2 == Append(p1, Proc("show", s))
      k2 == k1 \cup {"tfplan_json_path"}
      p3 == Append(p2, Proc("opa", o))
  IN IF ~dot /\ i.raised THEN OpaFailure("exception", p0, dot1, {})
     ELSE IF ~dot /\ i.rc # 0 THEN OpaFailure("Terraform init failed", p0, dot1, {})
     ELSE IF p.raised THEN OpaFailure("exception", p1, dot1, k0)
     ELSE IF p.rc # 0 THEN OpaFailure("Terraform plan failed", p1, dot1, k0)
     ELSE IF s.raised THEN OpaFailure("exception", p2, dot1, k1)
     ELSE IF s.rc # 0 THEN OpaFailure("Terraform show failed", p2, dot1, k1)
     ELSE IF w THEN OpaFailure("exception", p2, dot1, k1)
     ELSE IF o.raised THEN OpaFailure("exception", p3, dot1, k2)
     ELSE IF o.rc # 0 THEN OpaFailure("OPA evaluation failed", p3, dot1, k2)
     ELSE IF ~o.parseable THEN OpaFailure("exception", p3, dot1, k2)
     ELSE [success |-> TRUE, error |-> "", has_output |-> TRUE, opa_output |-> o.json,
           procs |-> p3, dot |-> dot1, keys |-> k2]

NoProc == [raised |-> TRUE, rc |-> 1]
NoOpa == [raised |-> TRUE, rc |-> 1, parseable |-> FALSE, json |-> JNull]

\* The runs of one run_opa_eval call, as for ValidateRuns; the write of
\* tfplan.json happens only after a successful show.
OpaRuns(dot) ==
  {run \in InitOutcomes \X ProcOutcomes \X ProcOutcomes \X BOOLEAN \X OpaOutcomes :
     LET procs == run_opa_eval(dot, run[1], run[2], run[3], run[4], run[5]).procs
         shown == "show" \in Cmds(procs) /\ ~run[3].raised /\ run[3].rc = 0
     IN /\ "init" \in Cmds(procs) \/ run[1] = NoInit
        /\ "plan" \in Cmds(procs) \/ run[2] = NoProc
        /\ "show" \in Cmds(procs) \/ run[3] = NoProc
        /\ shown \/ run[4] = FALSE
        /\ "opa" \in Cmds(procs) \/ run[5] = NoOpa}

\* ------------------------------------------------------------------------
\* The state of one workflow run
\* ------------------------------------------------------------------------
VARIABLES
  environ,        \* the MAX_ITERATIONS setting of the process environment
  state,          \* the ADK session state: a mapping from key to value
  pc,             \* the stage that runs next (or the loop head, or "end")
  times_looped,   \* LoopAgent's count of completed iterations
  escalate,       \* actions.escalate as set by exit_loop
  dot_terraform,  \* whether <repo_path>/.terraform exists
  last_call,      \* the subprocess-running tool call of the latest stage
  parse_input,    \* argument of a direct parse_opa_json call
  parse_result,   \* what that call returned
  origin_url,     \* the URL of the working copy's origin remote
  source_files    \* whether the source files were rewritten since the verification started

vars == <<environ, state, pc, times_looped, escalate, dot_terraform, last_call,
          parse_input, parse_result, origin_url, source_files>>

\* The source files of the working copy, seen from the verification: as they
\* were when terraform_validator last started (as cloned, before its first
\* run), or rewritten since.
SourceUnchanged == "unchanged"
SourceRewritten == "rewritten"

\* A remote URL: its scheme, the credentials before the host, whether the
\* host is github.com, the owner/repo path, and whether ".git" is appended.
Url(scheme, cred, github, dotgit) ==
  [scheme |-> scheme, cred |-> cred, github |-> github, owner_repo |-> "owner/repo",
   dotgit |-> dotgit]
\* GITHUB_REPO_URL: https://github.com/owner/repo
RepoUrl == Url("https", "", TRUE, FALSE)
\* No remote: there is no working copy yet.
NoUrl == Url("none", "", FALSE, FALSE)

NoCall == [tool |-> "none", success |-> FALSE, error |-> "", output |-> "none", procs |-> <<>>]
NoParse == [returned |-> <<>>, propagated |-> FALSE, caught |-> FALSE]

\* state.get(k, default) and state[k] = v for several keys at once
Get(s, k, default) == IF k \in DOMAIN s THEN s[k] ELSE default
Put(s, f) == [k \in DOMAIN s \cup DOMAIN f |-> IF k \in DOMAIN f THEN f[k] ELSE s[k]]
EmptyState == [k \in {} |-> 0]

Init ==
  /\ environ \in Environs
  /\ state = EmptyState
  /\ pc = "fix_loop"
  /\ times_looped = 0
  /\ escalate = FALSE
  /\ dot_terraform \in BOOLEAN
  /\ last_call = NoCall
  /\ parse_input = JNull
  /\ parse_result = NoParse
  /\ origin_url = RepoUrl
  /\ source_files = SourceUnchanged

\* ------------------------------------------------------------------------
\* Helpers of the stage actions
\* ------------------------------------------------------------------------
CallOf(tool, r) ==
  [tool |-> tool, success |-> r.success, error |-> r.error,
   output |-> IF tool = "run_opa_eval" THEN (IF r.has_output THEN "json" ELSE "none") ELSE r.output,
   procs |-> r.procs]

\* A variant of WriteFile that also drops the recorded policy violations.
WriteFileClearingViolations(s, path) ==
  Put(s, [files_modified |-> <<path>>, opa_violations |-> <<>>, opa_violation_count |-> 0])
\* write_file (file_operations.py): the path is recorded once in files_modified.
WriteFile(s, path) ==
  LET modified == Get(s, "files_modified", <<>>)
  IN IF \E n \in 1..Len(modified) : modified[n] = path THEN s
     ELSE Put(s, [files_modified |-> Append(modified, path)])

\* store_build_logs (build_log_storage.py) for a one-line summary that
\* names the build: the line is appended to build_logs.
StoreBuildLogs(s, line) ==
  Put(s, [build_logs |-> Append(Get(s, "build_logs", <<>>), line)])

TerraformErrors(n) == [k \in 1..n |-> "terraform_error"]

\* A counter, or a log, of a loop without limit is followed up to MaxCount
Unlimited == LoopMaxIterations(environ) = 0
Capped(n) == IF Unlimited /\ n > MaxCount THEN MaxCount ELSE n
CappedLog(lines) ==
  IF Unlimited /\ Len(lines) > MaxCount THEN SubSeq(lines, 1, MaxCount) ELSE lines
CappedCounters(s) ==
  Put(s, [iteration_count |-> Capped(s["iteration_count"]),
          build_verification_result |->
            [s["build_verification_result"] EXCEPT !.iteration_count = Capped(@)],
          build_logs |-> CappedLog(s["build_logs"])])
\* ------------------------------------------------------------------------
\* LoopAgent fix_loop (orchestrator.py): the head of the loop
\* ------------------------------------------------------------------------
\* The sub_agents of fix_loop in their listed order, build_verification
\* being the sequence terraform_validator, opa_evaluator,
\* verification_aggregator (build_verification/agent.py).
FixLoopStages ==
  <<"error_remediation", "syntax_verifier", "terraform_validator", "opa_evaluator",
    "verification_aggregator", "loop_decision">>

\* A variant of StageAfter in which the remediation is followed by the
\* build verification at once.
StageAfterSkippingVerifier(stage) ==
  IF stage = "error_remediation" THEN "terraform_validator"
  ELSE LET i == CHOOSE n \in 1..Len(FixLoopStages) : FixLoopStages[n] = stage
       IN IF i < Len(FixLoopStages) THEN FixLoopStages[i + 1] ELSE "fix_loop"
\* The stage that runs when the given one has returned; after the last one
\* control is back at the head of the loop.
StageAfter(stage) ==
  LET i == CHOOSE n \in 1..Len(FixLoopStages) : FixLoopStages[n] = stage
  IN IF i < Len(FixLoopStages) THEN FixLoopStages[i + 1] ELSE "fix_loop"
\* A variant of LoopContinues that allows one iteration more.
LoopContinuesOffByOne(max_iterations, looped) == max_iterations = 0 \/ looped <= max_iterations
\* while not self.max_iterations or times_looped < self.max_iterations
LoopContinues(max_iterations, looped) == max_iterations = 0 \/ looped < max_iterations

LoopHead ==
  /\ pc = "fix_loop"
  /\ pc' = IF LoopContinues(LoopMaxIterations(environ), times_looped)
           THEN FixLoopStages[1] ELSE "end"
  /\ UNCHANGED <<environ, state, times_looped, escalate, dot_terraform, last_call,
                 parse_input, parse_result, origin_url, source_files>>

\* The tools each stage of the fix loop holds (the tools list of its agent).
\* A variant of ToolsOf in which the policy evaluator also holds write_file.
ToolsOfWithWritingEvaluator(stage) ==
  IF stage = "opa_evaluator" THEN {"run_opa_eval", "parse_opa_json", "write_file"}
  ELSE IF stage \in {"error_remediation", "syntax_verifier"} THEN {"read_file", "write_file"}
  ELSE {}
ToolsOf(stage) ==
  CASE stage = "error_remediation" -> {"read_file", "write_file", "list_directory"}
    [] stage = "syntax_verifier" -> {"validate_terraform", "read_file", "write_file"}
    [] stage = "terraform_validator" -> {"validate_terraform"}
    [] stage = "opa_evaluator" -> {"run_opa_eval", "parse_opa_json"}
    [] stage = "verification_aggregator" -> {"store_build_logs"}
    [] stage = "loop_decision" -> {"exit_loop"}

\* The source files after a stage that rewrites them whenever it can: a
\* stage changes them only through write_file, so only if it holds it.
SourceAfter(stage, files) ==
  IF "write_file" \in ToolsOf(stage) THEN SourceRewritten ELSE files

\* error_remediation (error_remediation/agent.py): edits files with
\* write_file, or finds nothing to edit; its answer is stored under fixes_applied.
ErrorRemediation ==
  /\ pc = "error_remediation"
  /\ \E wrote \in BOOLEAN :
       /\ state' = Put(IF wrote THEN WriteFile(state, "main.tf") ELSE state,
                       [fixes_applied |-> "summary of fixes"])
       /\ source_files' = IF wrote THEN SourceAfter("error_remediation", source_files)
                          ELSE source_files
  /\ pc' = StageAfter("error_remediation")
  /\ UNCHANGED <<environ, times_looped, escalate, dot_terraform, last_call,
                 parse_input, parse_result, origin_url>>

\* syntax_verifier (syntax_verifier/agent.py), step 1: validate.
SyntaxVerifier ==
  /\ pc = "syntax_verifier"
  /\ \E run \in ValidateRuns :
       LET r == validate_terraform(dot_terraform, run[1], run[2], run[3])
       IN /\ last_call' = CallOf("validate_terraform", r)
          /\ dot_terraform' = r.dot
          /\ IF r.success
             THEN /\ state' = Put(state, [syntax_verification_result |->
                                            "Syntax validation passed - no errors found"])
                  /\ pc' = StageAfter("syntax_verifier")
             ELSE /\ state' = state
                  /\ pc' = "syntax_verifier_fix"
  /\ UNCHANGED <<environ, times_looped, escalate, parse_input, parse_result, origin_url, source_files>>

\* syntax_verifier, steps 2-4: fix the file, write it back, re-validate.
SyntaxVerifierFix ==
  /\ pc = "syntax_verifier_fix"
  /\ \E run \in ValidateRuns :
       LET r == validate_terraform(dot_terraform, run[1], run[2], run[3])
       IN /\ last_call' = CallOf("validate_terraform", r)
          /\ dot_terraform' = r.dot
  /\ state' = Put(WriteFile(state, "main.tf"),
                  [syntax_verification_result |-> "Fixed syntax errors"])
  /\ pc' = StageAfter("syntax_verifier")
  /\ source_files' = SourceAfter("syntax_verifier", source_files)
  /\ UNCHANGED <<environ, times_looped, escalate, parse_input, parse_result, origin_url>>

\* terraform_validator (build_verification/terraform_validator.py)
TerraformValidator ==
  /\ pc = "terraform_validator"
  /\ \E run \in ValidateRuns :
       LET r == validate_terraform(dot_terraform, run[1], run[2], run[3])
       IN \E n \in (IF r.success THEN {1} ELSE 1..MaxErrs) :
          /\ last_call' = CallOf("validate_terraform", r)
          /\ dot_terraform' = r.dot
          /\ state' = Put(state,
               [terraform_valid |-> r.success,
                terraform_errors |-> IF r.success THEN <<>> ELSE TerraformErrors(n),
                terraform_validation_message |->
                  IF r.success THEN "Terraform validation passed" ELSE "Terraform validation failed",
                terraform_validation_result |->
                  IF r.success THEN "Terraform validation passed - syntax is correct"
                  ELSE "Terraform validation failed - errors found"])
  /\ pc' = StageAfter("terraform_validator")
  /\ source_files' = SourceAfter("terraform_validator", SourceUnchanged)
  /\ UNCHANGED <<environ, times_looped, escalate, parse_input, parse_result, origin_url>>

\* opa_evaluator (build_verification/opa_evaluator.py), step 1: the
\* prerequisite that decides whether the evaluation runs.
\* A variant of OpaPrerequisite that lets the evaluation run whatever the
\* validator found.
OpaPrerequisiteAlways(s) == TRUE
OpaPrerequisite(s) == s["terraform_valid"]

\* A variant of OpaSkipped that leaves the violations of an earlier
\* evaluation in the state.
OpaSkippedKeepsViolations(s) ==
  Put(s, [opa_violations |-> Get(s, "opa_violations", <<>>),
          opa_violation_count |-> Get(s, "opa_violation_count", 0),
          opa_evaluation_message |-> "Skipped - Terraform validation failed",
          opa_evaluation_result |-> "OPA evaluation skipped - fix Terraform errors first"])
OpaSkipped(s) ==
  Put(s, [opa_violations |-> <<>>,
          opa_violation_count |-> 0,
          opa_evaluation_message |-> "Skipped - Terraform validation failed",
          opa_evaluation_result |-> "OPA evaluation skipped - fix Terraform errors first"])

\* What run_opa_eval itself stores through tool_context.state.
ToolWrites(keys) ==
  [k \in keys |-> IF k = "terraform_initialized" THEN TRUE
                  ELSE IF k = "tfplan_path" THEN "tfplan" ELSE "tfplan.json"]

\* Steps 3-5: opa_output is taken from the tool result (None when the
\* result has no such key), parsed, and the outcome is stored.
OpaRecorded(s, r) ==
  LET opa_output == IF r.has_output THEN r.opa_output ELSE JNull
      violations == parse_opa_json(opa_output).returned
  IN Put(Put(s, ToolWrites(r.keys)),
         [opa_output |-> opa_output,
          opa_violations |-> violations,
          opa_violation_count |-> Len(violations),
          opa_evaluation_message |->
            IF Len(violations) = 0 THEN "OPA evaluation passed" ELSE "OPA evaluation failed",
          opa_evaluation_result |->
            IF Len(violations) = 0 THEN "OPA evaluation passed - no violations found"
            ELSE "OPA evaluation failed - violations found"])

OpaEvaluator ==
  /\ pc = "opa_evaluator"
  /\ IF ~OpaPrerequisite(state)
     THEN /\ state' = OpaSkipped(state)
          /\ last_call' = NoCall
          /\ dot_terraform' = dot_terraform
     ELSE \E run \in OpaRuns(dot_terraform) :
            LET r == run_opa_eval(dot_terraform, run[1], run[2], run[3], run[4], run[5])
            IN /\ state' = OpaRecorded(state, r)
               /\ last_call' = CallOf("run_opa_eval", r)
               /\ dot_terraform' = r.dot
  /\ pc' = StageAfter("opa_evaluator")
  /\ source_files' = SourceAfter("opa_evaluator", source_files)
  /\ UNCHANGED <<environ, times_looped, escalate, parse_input, parse_result, origin_url>>

\* verification_aggregator (build_verification/verification_aggregator.py)
\* A variant of BuildSuccessful that looks at the violation count only.
BuildSuccessfulCountOnly(terraform_valid, opa_violation_count) ==
  opa_violation_count = 0
\* A variant of BuildSuccessful for which one of the two checks is enough.
BuildSuccessfulEither(terraform_valid, opa_violation_count) ==
  terraform_valid \/ opa_violation_count = 0
\* A variant of BuildSuccessful that looks at the syntax only.
BuildSuccessfulSyntaxOnly(terraform_valid, opa_violation_count) ==
  terraform_valid
BuildSuccessful(terraform_valid, opa_violation_count) ==
  terraform_valid /\ opa_violation_count = 0

\* A variant of RemainingErrors that leaves out the policy violations.
RemainingErrorsSyntaxOnly(terraform_errors, opa_violations) == terraform_errors
RemainingErrors(terraform_errors, opa_violations) == terraform_errors \o opa_violations

\* A variant of NextIterationCount that counts two per run.
NextIterationCountByTwo(s) == Get(s, "iteration_count", 0) + 2
\* A variant of NextIterationCount that counts from 1 when the key is absent.
NextIterationCountFromOne(s) == Get(s, "iteration_count", 1) + 1
\* iteration_count = iteration_count + 1, the key being absent before the first run
NextIterationCount(s) == Get(s, "iteration_count", 0) + 1

Aggregate(s) ==
  LET build_successful == BuildSuccessful(s["terraform_valid"], s["opa_violation_count"])
      remaining_errors == RemainingErrors(s["terraform_errors"], s["opa_violations"])
      result == [build_successful |-> build_successful,
                 remaining_errors |-> remaining_errors,
                 error_count |-> Len(remaining_errors),
                 iteration_count |-> NextIterationCount(s),
                 build_status |-> IF build_successful THEN "success" ELSE "failed"]
  IN Put(s, [build_successful |-> result.build_successful,
             remaining_errors |-> result.remaining_errors,
             error_count |-> result.error_count,
             iteration_count |-> result.iteration_count,
             build_status |-> result.build_status,
             build_verification_result |-> result,
             verification_aggregation_result |->
               IF build_successful THEN "Build verification SUCCESSFUL"
               ELSE "Build verification FAILED"])

VerificationAggregator ==
  /\ pc = "verification_aggregator"
  /\ state' = CappedCounters(StoreBuildLogs(Aggregate(state), "Build verification summary"))
  /\ pc' = StageAfter("verification_aggregator")
  /\ source_files' = SourceAfter("verification_aggregator", source_files)
  /\ UNCHANGED <<environ, times_looped, escalate, dot_terraform, last_call,
                 parse_input, parse_result, origin_url>>

\* loop_decision (orchestrator.py): exit_loop is called when
\* build_verification_result.build_successful is True, and "continue" is
\* returned when it is False or when there are remaining_errors.
\* A variant of ShouldExit that exits whatever the verdict.
ShouldExitAlways(s) == TRUE
\* A variant of ShouldExit that exits as soon as the syntax is valid.
ShouldExitOnSyntax(s) == s["terraform_valid"]
\* A variant of ShouldExit that exits when no policy violation is counted.
ShouldExitOnPolicyCount(s) == s["opa_violation_count"] = 0
ShouldExit(s) ==
  /\ s["build_verification_result"].build_successful
  /\ s["build_verification_result"].remaining_errors = <<>>

\* A variant of exit_loop that leaves actions.escalate as it was.
exit_loop_without_escalate == FALSE
\* exit_loop (loop_control.py): tool_context.actions.escalate = True
exit_loop == TRUE

\* LoopAgent stops on an escalating event and otherwise counts the
\* iteration and loops.
LoopDecision ==
  /\ pc = "loop_decision"
  /\ LET exit == ShouldExit(state)
         escalated == exit /\ exit_loop
     IN /\ escalate' = escalated
        /\ state' = Put(state, [loop_decision |-> IF exit THEN "loop_exited" ELSE "continue"])
        /\ pc' = IF escalated THEN "end" ELSE StageAfter("loop_decision")
        /\ times_looped' = IF escalated THEN times_looped ELSE Capped(times_looped + 1)
  /\ source_files' = SourceAfter("loop_decision", source_files)
  /\ UNCHANGED <<environ, dot_terraform, last_call, parse_input, parse_result, origin_url>>

Next ==
  \/ LoopHead
  \/ ErrorRemediation
  \/ SyntaxVerifier
  \/ SyntaxVerifierFix
  \/ TerraformValidator
  \/ OpaEvaluator
  \/ VerificationAggregator
  \/ LoopDecision

Spec == Init /\ [][Next]_vars

\* The same run for any MAX_ITERATIONS setting that int() accepts, zero and
\* negative values included.  The ADK runner drives the agents: a stage that
\* can run does run, and every step of the run moves pc.
AnyEnvirons ==
  {[present |-> TRUE, text |-> <<"1">>], [present |-> TRUE, text |-> <<"0">>],
   [present |-> TRUE, text |-> <<"-", "1">>]}

InitAnyConfig ==
  /\ environ \in AnyEnvirons
  /\ state = EmptyState
  /\ pc = "fix_loop"
  /\ times_looped = 0
  /\ escalate = FALSE
  /\ dot_terraform \in BOOLEAN
  /\ last_call = NoCall
  /\ parse_input = JNull
  /\ parse_result = NoParse
  /\ origin_url = RepoUrl
  /\ source_files = SourceUnchanged

SpecAnyConfig == InitAnyConfig /\ [][Next]_vars /\ WF_pc(Next)
\* ------------------------------------------------------------------------
\* SequentialAgent root_agent (orchestrator.py): log_analyzer,
\* repository_setup, fix_loop, code_finalizer, each run once, in this order.
\* ------------------------------------------------------------------------
\* git clone: exit code 0, a non-zero exit code, or a raised exception
\* (the 5 minute timeout included).
CloneOutcomes ==
  {[raised |-> FALSE, rc |-> 0], [raised |-> FALSE, rc |-> 128], [raised |-> TRUE, rc |-> 0]}

\* get_github_config (config_tools.py): github_token is stored only when
\* GITHUB_TOKEN is set; max_iterations and policy_path are stored when absent.
get_github_config(s, token_set) ==
  LET token == IF "github_token" \in DOMAIN s \/ ~token_set THEN s
               ELSE Put(s, [github_token |-> "token"])
      url == Put(token, [github_repo_url |-> "https://github.com/owner/repo"])
      iterations == IF "max_iterations" \in DOMAIN url THEN url
                    ELSE Put(url, [max_iterations |-> get_max_iterations(environ)])
  IN IF "policy_path" \in DOMAIN iterations THEN iterations
     ELSE Put(iterations, [policy_path |-> "policies"])

\* git_clone (git_operations.py): repo_path is stored only when git clone
\* exited with code 0; any other outcome is returned as status "error".
git_clone(s, o) ==
  IF ~o.raised /\ o.rc = 0
  THEN Put(s, [repo_path |-> "/tmp/self-healing-repo",
               github_repo_url |-> "https://github.com/owner/repo"])
  ELSE s

\* git_create_branch (git_operations.py): the branch is recorded when its
\* git commands exited with code 0 in the working copy.
git_create_branch(s, ok) ==
  IF "repo_path" \in DOMAIN s /\ ok
  THEN Put(s, [branch_name |-> "fix/auto-heal", base_branch |-> "main"])
  ELSE s

\* git_clone, lines 30-35: with a token and a github.com URL the clone,
\* and so the origin remote, uses the URL with the token placed after
\* "https://".
CloneUrl(url, token_set) ==
  IF token_set /\ url.github /\ url.scheme = "https" THEN [url EXCEPT !.cred = "token"] ELSE url

\* git_push: auth_url = https://{token}@github.com/{owner_repo}.git
PushAuthUrl(url) == [Url("https", "token", TRUE, TRUE) EXCEPT !.owner_repo = url.owner_repo]

\* The token argument of git_push: none, a value that fails the format test
\* of lines 332-340 (such as "NOT_CONFIGURED"), or a token.
Tokens == {"none", "placeholder", "valid"}

PushReturn(status, url, procs) == [status |-> status, url |-> url, procs |-> procs]
PushStatus(p) == IF p.rc = 0 THEN "success" ELSE "error"

\* git_push (git_operations.py).  g, s, p, r are the outcomes of
\* "git remote get-url origin", of "git remote set-url origin auth_url", of
\* "git push" (raised: the 120 s timeout or an OS error) and of the
\* set-url that restores the original URL, each used only if the call gets
\* that far.  A set-url that exits zero has set the URL; the result carries
\* the origin URL the call leaves behind.
git_push(url, token, g, s, p, r) ==
  IF token = "placeholder" THEN PushReturn("error", url, <<>>)
  ELSE
    LET authed == token = "valid"
        got == authed /\ ~g.raised /\ g.rc = 0
        rewrite == got /\ url.github
        p1 == IF authed THEN <<Proc("get-url", g)>> ELSE <<>>
        p2 == IF rewrite THEN Append(p1, Proc("set-url", s)) ELSE p1
        pushed_from == IF rewrite THEN PushAuthUrl(url) ELSE url
        p3 == Append(p2, Proc("push", p))
        p4 == Append(p3, Proc("set-url", r))
    IN IF authed /\ g.raised THEN PushReturn("error", url, p1)
       ELSE IF rewrite /\ (s.raised \/ s.rc # 0) THEN PushReturn("error", url, p2)
       ELSE IF p.raised THEN PushReturn("error", pushed_from, p3)
       ELSE IF ~got THEN PushReturn(PushStatus(p), pushed_from, p3)
       ELSE IF r.raised THEN PushReturn("error", pushed_from, p4)
       ELSE PushReturn(PushStatus(p), IF r.rc = 0 THEN url ELSE pushed_from, p4)

PushRuns == ProcOutcomes \X ProcOutcomes \X ProcOutcomes \X ProcOutcomes

\* git_commit: commit_sha is stored when git commit exited with code 0.
git_commit(s, ok) ==
  IF "repo_path" \in DOMAIN s /\ ok THEN Put(s, [commit_sha |-> "sha"]) ELSE s

\* create_pull_request: pr_url and pr_number are stored on HTTP 201; a
\* token that fails the format test ends the call before the request.
create_pull_request(s, token, created) ==
  IF token = "valid" /\ created
  THEN Put(s, [pr_url |-> "https://github.com/owner/repo/pull/1", pr_number |-> 1])
  ELSE s
\* root_agent (orchestrator.py): the sub-agents of the SequentialAgent in
\* the order they are listed.
RootStages == <<"log_analyzer", "repository_setup", "fix_loop", "code_finalizer">>

\* A variant of RootStageAfter in which the loop follows the analysis at
\* once.
RootStageAfterSkippingSetup(stage) ==
  IF stage = "log_analyzer" THEN "fix_loop"
  ELSE LET i == CHOOSE n \in 1..Len(RootStages) : RootStages[n] = stage
       IN RootStages[i + 1]
\* The sub-agent that runs when the given one has returned.
RootStageAfter(stage) ==
  LET i == CHOOSE n \in 1..Len(RootStages) : RootStages[n] = stage
  IN RootStages[i + 1]
StateAtStart == [application_logs |-> "build log"]

InitWorkflow ==
  /\ environ = [present |-> TRUE, text |-> <<"1">>]
  /\ state = StateAtStart
  /\ pc = "log_analyzer"
  /\ times_looped = 0
  /\ escalate = FALSE
  /\ dot_terraform \in BOOLEAN
  /\ last_call = NoCall
  /\ parse_input = JNull
  /\ parse_result = NoParse
  /\ origin_url = NoUrl
  /\ source_files = SourceUnchanged

\* log_analyzer (log_analyzer/agent.py): stores the logs and lists the errors.
LogAnalyzer ==
  /\ pc = "log_analyzer"
  /\ state' = Put(StoreBuildLogs(state, state["application_logs"]), [errors |-> "list of errors"])
  /\ pc' = RootStageAfter("log_analyzer")
  /\ UNCHANGED <<environ, times_looped, escalate, dot_terraform, last_call,
                 parse_input, parse_result, origin_url, source_files>>

\* repository_setup (repository_setup/agent.py): configuration, clone,
\* branch, .gitignore, summary.  The instruction has no step that stops the
\* run when a tool returns an error.
RepositorySetup ==
  /\ pc = "repository_setup"
  /\ \E token_set \in BOOLEAN, o \in CloneOutcomes, branch_ok \in BOOLEAN :
       LET configured == get_github_config(state, token_set)
           cloned == git_clone(configured, o)
           branched == git_create_branch(cloned, branch_ok)
           ignored == IF "repo_path" \in DOMAIN branched
                      THEN WriteFile(branched, ".gitignore") ELSE branched
       IN /\ state' = Put(ignored, [repo_setup_info |-> "summary of the setup"])
          /\ origin_url' = IF "repo_path" \in DOMAIN cloned
                           THEN CloneUrl(RepoUrl, token_set) ELSE origin_url
  /\ pc' = RootStageAfter("repository_setup")
  /\ UNCHANGED <<environ, times_looped, escalate, dot_terraform, last_call,
                 parse_input, parse_result, source_files>>

\* code_finalizer (code_finalizer/agent.py) runs when fix_loop has returned:
\* get_github_config, git_add_files, git_commit, git_push,
\* create_pull_request, then its summary.  It reads repo_path, branch_name,
\* github_repo_url, files_modified and fixes_applied, and takes the token
\* from the result of get_github_config ("NOT_CONFIGURED" when none is set).
CodeFinalizer ==
  /\ pc = "end"
  /\ \E commit_ok \in BOOLEAN, run \in PushRuns, created \in BOOLEAN :
       LET configured == get_github_config(state, "github_token" \in DOMAIN state)
           token == IF "github_token" \in DOMAIN configured THEN "valid" ELSE "placeholder"
           committed == git_commit(configured, commit_ok)
           pushed == git_push(origin_url, token, run[1], run[2], run[3], run[4])
           requested == create_pull_request(committed, token, created)
       IN /\ state' = Put(requested, [pr_details |-> "summary of the run"])
          /\ origin_url' = IF "repo_path" \in DOMAIN state THEN pushed.url ELSE origin_url
  /\ pc' = "done"
  /\ UNCHANGED <<environ, times_looped, escalate, dot_terraform, last_call,
                 parse_input, parse_result, source_files>>

NextWorkflow ==
  \/ LogAnalyzer
  \/ RepositorySetup
  \/ Next
  \/ CodeFinalizer

SpecWorkflow == InitWorkflow /\ [][NextWorkflow]_vars
\* ------------------------------------------------------------------------
\* A subprocess that never exits.  subprocess.run waits for the child until
\* its timeout expires, and without end when it is given none; an expired
\* timeout raises TimeoutExpired, which both tools catch like any exception
\* (the raised outcome above).
\* ------------------------------------------------------------------------
NoTimeout == "None"
\* The timeout argument of each subprocess.run call in opa_tools.py: none
\* of the calls passes one.
SubprocessTimeout(cmd) ==
  CASE cmd = "validate" -> NoTimeout
    [] cmd = "init" -> NoTimeout
    [] cmd = "plan" -> NoTimeout
    [] cmd = "show" -> NoTimeout
    [] cmd = "opa" -> NoTimeout

\* The subprocesses the stage at pc may start
StageCmds ==
  IF pc \in {"syntax_verifier", "syntax_verifier_fix", "terraform_validator"}
  THEN {"validate", "init"}
  ELSE IF pc = "opa_evaluator" /\ OpaPrerequisite(state)
  THEN (IF dot_terraform THEN {} ELSE {"init"}) \cup {"plan", "show", "opa"}
  ELSE {}

\* The tool call waits for a child that does not exit: the stage does not return.
SubprocessNeverExits ==
  /\ \E cmd \in StageCmds : SubprocessTimeout(cmd) = NoTimeout
  /\ pc' = "blocked"
  /\ UNCHANGED <<environ, state, times_looped, escalate, dot_terraform, last_call,
                 parse_input, parse_result, origin_url, source_files>>

NextHang ==
  \/ Next
  \/ SubprocessNeverExits

SpecHang == InitAnyConfig /\ [][NextHang]_vars
\* The terminal states of the loop
Converged == pc = "end" /\ escalate
Exhausted == pc = "end" /\ ~escalate
\* The number of the iteration whose stages are running
Iteration == times_looped + 1

\* ------------------------------------------------------------------------
\* Direct calls of parse_opa_json: the argument ranges over evaluator
\* outputs of the expected shape and over structures that depart from it
\* at some level (a missing key, a value of another type, a non-mapping).
\* ------------------------------------------------------------------------
PkgNames == <<"p1", "p2", "p3">>
MsgA == JStr("a")
MsgB == JStr("b")
MsgC == JStr("c")

RuleValues ==
  {JList(<<>>), JList(<<MsgA, MsgB>>), JList(<<MsgC>>),
   JStr("ab"), JInt(5), JNull, JDict(<<>>), JDict(<< <<"other", JInt(1)>> >>)}

PkgContents ==
  {JDict(<< <<"deny", r>> >>) : r \in RuleValues}
  \cup {JDict(<< <<"violation", r>> >>) : r \in RuleValues}
  \cup {JDict(<< <<"deny", JList(<<MsgA>>)>>, <<"violation", JList(<<MsgC>>)>> >>),
        JDict(<< <<"deny", JInt(5)>>, <<"violation", JList(<<MsgC>>)>> >>),
        JDict(<<>>),
        JDict(<< <<"other", JList(<<MsgA>>)>> >>),
        JStr("ab"), JList(<<MsgA>>), JNull}

ValueDicts ==
  UNION {{JDict([n \in 1..k |-> <<PkgNames[n], f[n]>>]) : f \in [1..k -> PkgContents]} :
           k \in 0..MaxPkgs}

OddValues == {JList(<<>>), JList(<<MsgA>>), JStr("ab"), JInt(5), JNull}

GoodExpr == JDict(<< <<"value", JDict(<< <<"p1", JDict(<< <<"deny", JList(<<MsgA, MsgB>>)>> >>)>> >>)>> >>)
OddExprs == {JDict(<< <<"other", JInt(1)>> >>), JStr("ab"), JInt(5), JNull, JList(<<>>)}

Exprs ==
  {JDict(<< <<"value", v>> >>) : v \in ValueDicts \cup OddValues} \cup {JDict(<<>>)} \cup OddExprs

ExpressionsValues ==
  {JList(<<e>>) : e \in Exprs}
  \cup {JList(<<GoodExpr, e>>) : e \in OddExprs}
  \cup {JList(<<e, GoodExpr>>) : e \in OddExprs}
  \cup {JList(<<>>), JStr("ab"), JInt(5), JNull, JDict(<< <<"value", JDict(<<>>)>> >>)}

GoodRes == JDict(<< <<"expressions", JList(<<GoodExpr>>)>> >>)
OddRes ==
  {JDict(<<>>), JDict(<< <<"other", JInt(1)>> >>), JStr("expressions"), JStr("ab"), JInt(5),
   JNull, JList(<<JStr("expressions")>>), JList(<<>>)}

Ress == {JDict(<< <<"expressions", e>> >>) : e \in ExpressionsValues} \cup OddRes

ResultValues ==
  {JList(<<r>>) : r \in Ress}
  \cup {JList(<<GoodRes, r>>) : r \in OddRes}
  \cup {JList(<<r, GoodRes>>) : r \in OddRes}
  \cup {JList(<<>>), JStr("ab"), JInt(5), JNull, JDict(<< <<"expressions", JInt(1)>> >>)}

ParseInputs ==
  {JDict(<< <<"result", r>> >>) : r \in ResultValues}
  \cup {JDict(<<>>), JDict(<< <<"other", JInt(1)>> >>), JList(<<JStr("result")>>),
        JList(<<>>), JStr("result"), JStr("ab"), JInt(5), JNull}

InitParse ==
  /\ environ = [present |-> FALSE, text |-> <<>>]
  /\ state = EmptyState
  /\ pc = "parse_opa_json"
  /\ times_looped = 0
  /\ escalate = FALSE
  /\ dot_terraform = FALSE
  /\ last_call = NoCall
  /\ parse_input \in ParseInputs
  /\ parse_result = NoParse
  /\ origin_url = RepoUrl
  /\ source_files = SourceUnchanged

ParseCall ==
  /\ pc = "parse_opa_json"
  /\ parse_result' = parse_opa_json(parse_input)
  /\ pc' = "parsed"
  /\ UNCHANGED <<environ, state, times_looped, escalate, dot_terraform, last_call, parse_input,
                 origin_url, source_files>>

NextParse == ParseCall

SpecParse == InitParse /\ [][NextParse]_vars

\* ------------------------------------------------------------------------
\* Direct calls of git_push: the origin remote of the working copy ranges
\* over the forms of a remote URL (https with and without credentials and
\* ".git" suffix, on github.com or another host, and the ssh form
\* git@github.com:owner/repo), the token over its three kinds, and every
\* subprocess of the call over its outcomes.
\* ------------------------------------------------------------------------
OriginUrls ==
  {Url("https", cred, github, dotgit) :
     cred \in {"", "token"}, github \in BOOLEAN, dotgit \in BOOLEAN}
  \cup {Url("ssh", "", TRUE, dotgit) : dotgit \in BOOLEAN}

InitPush ==
  /\ environ = [present |-> FALSE, text |-> <<>>]
  /\ state = EmptyState
  /\ pc = "git_push"
  /\ times_looped = 0
  /\ escalate = FALSE
  /\ dot_terraform = FALSE
  /\ last_call = NoCall
  /\ parse_input = JNull
  /\ parse_result = NoParse
  /\ origin_url \in OriginUrls
  /\ source_files = SourceUnchanged

PushCall ==
  /\ pc = "git_push"
  /\ \E token \in Tokens, run \in PushRuns :
       LET r == git_push(origin_url, token, run[1], run[2], run[3], run[4])
       IN /\ origin_url' = r.url
          /\ last_call' = [tool |-> "git_push", success |-> r.status = "success",
                           error |-> IF r.status = "success" THEN "" ELSE "error",
                           output |-> "none", procs |-> r.procs]
  /\ pc' = "pushed"
  /\ UNCHANGED <<environ, state, times_looped, escalate, dot_terraform, parse_input,
                 parse_result, source_files>>

NextPush == PushCall

SpecPush == InitPush /\ [][NextPush]_vars
\* ========================================================================
\* Properties
\* ========================================================================

\* The stages of an iteration that run before the aggregator
BeforeAggregator ==
  pc \in {"error_remediation", "syntax_verifier", "syntax_verifier_fix",
          "terraform_validator", "opa_evaluator", "verification_aggregator"}
\* The aggregator's verdict is the latest thing computed: its inputs are
\* still the values it read.
AfterAggregator == pc \in {"loop_decision", "fix_loop", "end"} /\ "build_successful" \in DOMAIN state

\* C1: whenever the Verification Aggregator has run (in any iteration, for
\* any stage outcomes), the stored verdict, flat and inside
\* build_verification_result, is build_successful = (terraform_valid and
\* opa_violation_count = 0), and build_status says the same.
C1_VerdictIsConjunction ==
  AfterAggregator =>
    /\ state["build_successful"] = (state["terraform_valid"] /\ state["opa_violation_count"] = 0)
    /\ state["build_verification_result"].build_successful = state["build_successful"]
    /\ state["build_status"] = (IF state["build_successful"] THEN "success" ELSE "failed")

\* A second iteration in which the syntax is valid and violations remain.
C1_Witness ==
  /\ pc = "loop_decision"
  /\ times_looped >= 1
  /\ state["terraform_valid"]
  /\ state["opa_violation_count"] > 0
  /\ ~state["build_successful"]

\* C2: when terraform_valid is false as the opa_evaluator stage starts, the
\* stage starts no subprocess and leaves opa_violations = [],
\* opa_violation_count = 0 and the "Skipped" message.
C2_SkippedWhenInvalid ==
  (pc = "verification_aggregator" /\ ~state["terraform_valid"]) =>
    /\ last_call = NoCall
    /\ state["opa_violations"] = <<>>
    /\ state["opa_violation_count"] = 0
    /\ state["opa_evaluation_message"] = "Skipped - Terraform validation failed"

\* The evaluator was skipped in an iteration that follows one in which it
\* ran, so earlier results were in the state.
C2_Witness ==
  /\ pc = "verification_aggregator"
  /\ ~state["terraform_valid"]
  /\ "opa_output" \in DOMAIN state
  /\ last_call = NoCall

AggregatorRuns == times_looped + (IF pc = "loop_decision" \/ Converged THEN 1 ELSE 0)

C5_IterationCount ==
  /\ Get(state, "iteration_count", 0) = AggregatorRuns
  /\ ("iteration_count" \in DOMAIN state) = (AggregatorRuns >= 1)
  /\ AfterAggregator =>
       state["build_verification_result"].iteration_count = state["iteration_count"]

\* Three iterations have passed through the aggregator.
C5_Witness ==
  /\ pc = "loop_decision"
  /\ times_looped = 2
  /\ state["iteration_count"] = 3

\* The subprocesses of the latest tool call that did not exit with code 0
ProcOk(q) == ~q.raised /\ q.rc = 0
FailedProcs == {n \in 1..Len(last_call.procs) : ~ProcOk(last_call.procs[n])}
OpaCallFailed == last_call.tool = "run_opa_eval" /\ ~last_call.success

\* C6: when the syntax is valid and a step of run_opa_eval fails (init,
\* plan, show or opa exits non-zero, or the tool returns success = false),
\* the verdict of that iteration is build_successful = False and the loop
\* does not converge on it.
C6_ToolFailureNotSuccess ==
  (AfterAggregator /\ state["terraform_valid"] /\ OpaCallFailed) =>
    /\ ~state["build_successful"]
    /\ ~Converged

\* C7 as stated: whatever a subprocess does, both tools return a result
\* record, with success = true only when every step of the call exited
\* zero, and a failure carries details.
C7_SuccessOnlyIfEveryStepOk ==
  (last_call.tool # "none") =>
    /\ last_call.success => FailedProcs = {}
    /\ ~last_call.success => (last_call.error # "" \/ last_call.output # "none")

\* C7 amended: neither tool raises; every outcome gives a result record.
\* run_opa_eval returns success = true exactly when every step it started
\* exited zero and the engine output parsed.  validate_terraform returns
\* success = true exactly when the last validate it ran exited zero, so a
\* first check that failed on a missing provider does not prevent success
\* once init and the retry exit zero, and stdout that is not JSON is
\* returned as raw output.  A failure carries an error or the output.
LastProc == last_call.procs[Len(last_call.procs)]

C7_FailuresAreResults ==
  /\ (last_call.tool = "run_opa_eval") =>
       /\ last_call.success = (FailedProcs = {} /\ last_call.output = "json")
       /\ last_call.success => {"plan", "show", "opa"} \subseteq Cmds(last_call.procs)
       /\ ~last_call.success => last_call.error # ""
  /\ (last_call.tool = "validate_terraform") =>
       /\ last_call.success = (LastProc.cmd = "validate" /\ ProcOk(LastProc))
       /\ last_call.success => FailedProcs \subseteq {1}
       /\ ~last_call.success => (last_call.error # "" \/ last_call.output # "none")
       /\ (\E n \in FailedProcs : last_call.procs[n].raised) => last_call.error = "exception"

\* validate_terraform succeeded after a failed first check, init and a retry.
C7_Witness ==
  /\ last_call.tool = "validate_terraform"
  /\ last_call.success
  /\ Len(last_call.procs) = 3
  /\ FailedProcs = {1}

\* C8: one validate_terraform call runs the check at most twice and init at
\* most once; init runs only after a first check that failed with a
\* missing-provider text; the check is retried once, and only after init
\* exited zero; any other failure is returned without init or retry.
ProcsOf(cmd) == {n \in 1..Len(last_call.procs) : last_call.procs[n].cmd = cmd}

C8_InitThenRetryOnce ==
  (last_call.tool = "validate_terraform") =>
    LET procs == last_call.procs
    IN /\ Len(procs) \in 1..3
       /\ procs[1].cmd = "validate"
       /\ ProcsOf("validate") \subseteq {1, 3}
       /\ ProcsOf("init") \subseteq {2}
       /\ Len(procs) >= 2 => (~procs[1].raised /\ procs[1].rc # 0 /\ procs[1].missing)
       /\ (~procs[1].raised /\ procs[1].rc # 0 /\ procs[1].missing) => Len(procs) >= 2
       /\ (Len(procs) = 3) = (Len(procs) >= 2 /\ ProcOk(procs[2]))
       /\ (Len(procs) = 1 /\ ~ProcOk(procs[1])) => ~last_call.success

\* The check failed on a missing provider, init succeeded, and the retry
\* failed again: no further attempt follows.
C8_Witness ==
  /\ last_call.tool = "validate_terraform"
  /\ Len(last_call.procs) = 3
  /\ ~ProcOk(last_call.procs[3])
  /\ last_call.procs[3].missing
  /\ ~last_call.success

\* The evaluator result of the two-package scenario: package p1 exposes
\* deny ["a", "b"], package p2 exposes violation ["c"].
TopOf(value) ==
  JDict(<< <<"result", JList(<< JDict(<< <<"expressions",
    JList(<< JDict(<< <<"value", value>> >>) >>)>> >>) >>)>> >>)

TwoPackages ==
  TopOf(JDict(<< <<"p1", JDict(<< <<"deny", JList(<<MsgA, MsgB>>)>> >>)>>,
                 <<"p2", JDict(<< <<"violation", JList(<<MsgC>>)>> >>)>> >>))

\* The same two rules with the violation package listed first.
TwoPackagesSwapped ==
  TopOf(JDict(<< <<"p1", JDict(<< <<"violation", JList(<<MsgC>>)>> >>)>>,
                 <<"p2", JDict(<< <<"deny", JList(<<MsgA, MsgB>>)>> >>)>> >>))

\* C9: for an evaluator result with two packages, one exposing
\* deny ["a", "b"] and the other violation ["c"], parse_opa_json returns
\* exactly three violations with the messages a, b, c, each carrying the
\* name of its package.
C9_TwoPackagesThreeViolations ==
  /\ (pc = "parsed" /\ parse_input = TwoPackages) =>
       parse_result.returned =
         << [package |-> "p1", message |-> MsgA, severity |-> "high"],
            [package |-> "p1", message |-> MsgB, severity |-> "high"],
            [package |-> "p2", message |-> MsgC, severity |-> "high"] >>
  /\ (pc = "parsed" /\ parse_input = TwoPackagesSwapped) =>
       parse_result.returned =
         << [package |-> "p1", message |-> MsgC, severity |-> "high"],
            [package |-> "p2", message |-> MsgA, severity |-> "high"],
            [package |-> "p2", message |-> MsgB, severity |-> "high"] >>

\* parse_opa_json has returned for the two-package result.
C9_Witness ==
  /\ pc = "parsed"
  /\ parse_input = TwoPackages
  /\ Len(parse_result.returned) = 3

\* The shape parse_opa_json expects: a mapping with a result list of
\* mappings, each with an expressions list of mappings, each with a value
\* mapping from package names to mappings whose deny and violation rules,
\* where present, are lists of message strings.
AllOf(xs, P(_)) == \A n \in 1..Len(xs) : P(xs[n])
IsMessageList(x) == IsList(x) /\ AllOf(x.v, IsStr)
WellShapedPkg(pair) ==
  /\ IsDict(pair[2])
  /\ "deny" \in DictKeys(pair[2]) => IsMessageList(DictGet(pair[2], "deny"))
  /\ "violation" \in DictKeys(pair[2]) => IsMessageList(DictGet(pair[2], "violation"))
WellShapedExpr(x) ==
  /\ IsDict(x) /\ "value" \in DictKeys(x)
  /\ IsDict(DictGet(x, "value"))
  /\ AllOf(DictGet(x, "value").v, WellShapedPkg)
WellShapedRes(x) ==
  /\ IsDict(x) /\ "expressions" \in DictKeys(x)
  /\ IsList(DictGet(x, "expressions"))
  /\ AllOf(DictGet(x, "expressions").v, WellShapedExpr)
WellShaped(x) ==
  /\ IsDict(x) /\ "result" \in DictKeys(x)
  /\ IsList(DictGet(x, "result"))
  /\ AllOf(DictGet(x, "result").v, WellShapedRes)

\* C10: for an empty or malformed structure (a missing result, expressions
\* or value key, a value of the wrong shape at any level, a non-mapping
\* input) parse_opa_json returns the empty list and does not raise.
C10_MalformedGivesEmpty ==
  (pc = "parsed" /\ ~WellShaped(parse_input)) =>
    /\ parse_result.returned = <<>>
    /\ ~parse_result.propagated

\* What the rules of an evaluator result of the expected shape hold, read
\* off the structure itself: for each result entry, expression and package
\* in turn, every message of the package's deny list and every message of
\* its violation list.
RuleMessages(pair, rule) ==
  IF rule \in DictKeys(pair[2])
  THEN LET msgs == DictGet(pair[2], rule).v
       IN [n \in 1..Len(msgs) |-> [package |-> pair[1], message |-> msgs[n], severity |-> "high"]]
  ELSE <<>>

RECURSIVE MessagesOfPkgs(_, _)
MessagesOfPkgs(pairs, i) ==
  IF i > Len(pairs) THEN <<>>
  ELSE RuleMessages(pairs[i], "deny") \o RuleMessages(pairs[i], "violation")
         \o MessagesOfPkgs(pairs, i + 1)

RECURSIVE MessagesOfExprs(_, _)
MessagesOfExprs(exprs, i) ==
  IF i > Len(exprs) THEN <<>>
  ELSE MessagesOfPkgs(DictGet(exprs[i], "value").v, 1) \o MessagesOfExprs(exprs, i + 1)

RECURSIVE MessagesOfRess(_, _)
MessagesOfRess(ress, i) ==
  IF i > Len(ress) THEN <<>>
  ELSE MessagesOfExprs(DictGet(ress[i], "expressions").v, 1) \o MessagesOfRess(ress, i + 1)

\* C11: for every evaluator output of the expected shape, parse_opa_json
\* returns exactly one Violation per message of every package-level deny
\* list and violation list (a package exposing both rules included), in
\* traversal order, each with severity "high"; a package with neither rule
\* contributes nothing.
C11_OnePerRuleMessage ==
  (pc = "parsed" /\ WellShaped(parse_input)) =>
    parse_result.returned = MessagesOfRess(DictGet(parse_input, "result").v, 1)

\* The base iteration count as configured: the MAX_ITERATIONS value when it
\* is set to an integer, 5 otherwise.
ConfiguredBase ==
  IF environ.present /\ PyInt(environ.text).ok THEN PyInt(environ.text).val ELSE 5

\* C12: the limit the loop head works with is a positive integer equal to
\* twice the configured base, and is 10 when MAX_ITERATIONS is absent or not
\* an integer.
C12_CeilingPositiveTwiceBase ==
  (pc # "fix_loop" \/ times_looped > 0) =>
    /\ LoopMaxIterations(environ) = 2 * ConfiguredBase
    /\ LoopMaxIterations(environ) > 0
    /\ (~environ.present \/ ~PyInt(environ.text).ok) => LoopMaxIterations(environ) = 10

\* C13: whatever the configured value and the stage outcomes, the fix loop
\* reaches a terminal state (converged or exhausted).
C13_LoopTerminates == <>(pc = "end")

\* The stages of the fix loop and the keys they store their answers under
LoopStages ==
  {"error_remediation", "syntax_verifier", "syntax_verifier_fix", "terraform_validator",
   "opa_evaluator", "verification_aggregator", "loop_decision"}
LoopStageKeys ==
  {"fixes_applied", "syntax_verification_result", "terraform_validation_result",
   "opa_evaluation_result", "verification_aggregation_result", "loop_decision"}

\* repository_setup has returned without a working copy, or without a token.
FatalPrecondition ==
  /\ pc \notin {"log_analyzer", "repository_setup"}
  /\ ("repo_path" \notin DOMAIN state \/ "github_token" \notin DOMAIN state)

\* C14: when the clone failed or the token is missing, no stage of the fix
\* loop (remediation, syntax fix, verification, decision) runs in that run.
C14_FatalAbortsBeforeLoop ==
  FatalPrecondition =>
    /\ pc \notin LoopStages
    /\ LoopStageKeys \cap DOMAIN state = {}

\* C15: every subprocess of the Syntax Validator and the Policy Evaluator
\* (validate, init, plan, show, policy engine) runs under a timeout, so a
\* child that never exits ends as a failed result of its tool and no stage
\* is left waiting for it.
C15_TimeoutsBoundEverySubprocess == pc # "blocked"

\* The latest loop_decision answer is in the state and the verdict it read
\* has not been replaced by a later aggregator run.
DecisionMade ==
  /\ "loop_decision" \in DOMAIN state
  /\ pc \in {"fix_loop", "end"} \/ BeforeAggregator

C17_SyntaxInvalidCountsSyntaxOnly ==
  /\ (AfterAggregator /\ ~state["terraform_valid"]) =>
       /\ last_call = NoCall
       /\ state["remaining_errors"] = state["terraform_errors"]
       /\ state["error_count"] = Len(state["terraform_errors"])
       /\ state["build_verification_result"].error_count = Len(state["terraform_errors"])
       /\ state["error_count"] >= 1
  /\ (pc = "fix_loop" /\ times_looped = 1 /\ ~state["terraform_valid"]) =>
       /\ ~escalate
       /\ state["loop_decision"] = "continue"
       /\ LoopContinues(LoopMaxIterations(environ), times_looped)

\* Iteration 2 has started after an iteration 1 whose syntax was invalid
\* with two errors.
C17_Witness ==
  /\ pc = "error_remediation"
  /\ times_looped = 1
  /\ ~state["terraform_valid"]
  /\ state["error_count"] = 2
  /\ state["iteration_count"] = 1

\* The results of iteration n are the latest in the state: its aggregator
\* has run and no stage of a later iteration has replaced what it read.
ResultsOf(n) ==
  /\ "iteration_count" \in DOMAIN state
  /\ state["iteration_count"] = n
  /\ pc \in {"loop_decision", "fix_loop", "end", "error_remediation"}

\* C18 (scenario B): an iteration 1 with valid syntax and 3 policy
\* violations does not end the loop, which goes on to iteration 2; an
\* iteration 2 with valid syntax and 0 violations gives build_successful =
\* True and iteration_count = 2, the loop converges on it and no third
\* iteration runs.
C18_ConvergesAtSecondIteration ==
  /\ (ResultsOf(1) /\ state["terraform_valid"] /\ state["opa_violation_count"] = 3) =>
       /\ ~state["build_successful"]
       /\ state["error_count"] = 3
       /\ pc # "end"
       /\ ~escalate
       /\ pc = "fix_loop" => LoopContinues(LoopMaxIterations(environ), times_looped)
  /\ (ResultsOf(2) /\ state["terraform_valid"] /\ state["opa_violation_count"] = 0) =>
       /\ state["build_successful"]
       /\ state["build_verification_result"].iteration_count = 2
       /\ pc \in {"loop_decision", "end"}
       /\ pc = "end" => (Converged /\ times_looped = 1)
  /\ Converged => state["iteration_count"] = times_looped + 1

\* The loop has converged in iteration 2, on an evaluation that ran and
\* found no violation, after a first iteration that was continued.
C18_Witness ==
  /\ Converged
  /\ times_looped = 1
  /\ state["iteration_count"] = 2
  /\ state["terraform_valid"]
  /\ state["opa_violation_count"] = 0
  /\ last_call.tool = "run_opa_eval"
  /\ last_call.success

\* The stage a value of pc belongs to: the syntax verifier's fixing step is
\* part of the syntax_verifier stage.
StageOfPc(p) == IF p = "syntax_verifier_fix" THEN "syntax_verifier" ELSE p

StageSuccession ==
  {<<"fix_loop", "error_remediation">>, <<"fix_loop", "end">>,
   <<"error_remediation", "syntax_verifier">>,
   <<"syntax_verifier", "terraform_validator">>,
   <<"terraform_validator", "opa_evaluator">>,
   <<"opa_evaluator", "verification_aggregator">>,
   <<"verification_aggregator", "loop_decision">>,
   <<"loop_decision", "fix_loop">>, <<"loop_decision", "end">>}

\* C19: within an iteration the stages run in the order error_remediation,
\* syntax_verifier, terraform_validator, opa_evaluator,
\* verification_aggregator, loop_decision, each starting when the previous
\* one has returned; the iteration count moves only when loop_decision
\* returns, and the first stage of the next iteration starts only from the
\* head of the loop, which is reached only from loop_decision.
C19_StagesInFixedOrder ==
  [][ /\ StageOfPc(pc') = StageOfPc(pc) \/ <<StageOfPc(pc), StageOfPc(pc')>> \in StageSuccession
      /\ times_looped' # times_looped =>
           (pc = "loop_decision" /\ pc' = "fix_loop" /\ times_looped' = times_looped + 1)
      /\ (pc = "loop_decision" /\ pc' = "fix_loop") => times_looped' = times_looped + 1
    ]_<<pc, times_looped>>

\* The second iteration has run all its stages up to the decision: every
\* stage has stored its answer.
C19_Witness ==
  /\ pc = "fix_loop"
  /\ times_looped = 2
  /\ {"fixes_applied", "syntax_verification_result", "terraform_validation_result",
      "opa_evaluation_result", "verification_aggregation_result", "loop_decision"}
       \subseteq DOMAIN state
  /\ state["iteration_count"] = 2

\* C20: when loop_decision signals termination, in the iteration whose
\* number equals the limit as in any other, the loop ends converged and
\* not exhausted; it ends exhausted only when the last permitted iteration
\* ended with a continue decision.
C20_ExitAtCeilingIsConverged ==
  /\ (pc = "end" /\ "loop_decision" \in DOMAIN state /\ state["loop_decision"] = "loop_exited") =>
       /\ Converged
       /\ state["iteration_count"] = times_looped + 1
       /\ state["iteration_count"] <= LoopMaxIterations(environ)
  /\ Exhausted =>
       /\ state["loop_decision"] = "continue"
       /\ state["iteration_count"] = LoopMaxIterations(environ)
       /\ times_looped = LoopMaxIterations(environ)

\* loop_decision called exit_loop in the last permitted iteration.
C20_Witness ==
  /\ Converged
  /\ state["loop_decision"] = "loop_exited"
  /\ state["iteration_count"] = LoopMaxIterations(environ)
  /\ times_looped = LoopMaxIterations(environ) - 1

\* The positions of pc that belong to the fix loop while it is running.
InFixLoop == pc \in {"fix_loop", "syntax_verifier_fix"} \/ pc \in LoopStages

\* C21: the outer workflow runs Analyze, Setup, fix loop, Finalize in that
\* order.  Control enters the loop only from repository_setup, and setup
\* only from log_analyzer, so while the loop runs both have stored their
\* answers; the finalizer's step starts only from the position the loop
\* leaves when it has returned, and its answer exists only after that step,
\* never while the loop is still running.
C21_OuterStagesInOrder ==
  [][ /\ pc = "log_analyzer" => pc' = "repository_setup"
      /\ pc' = "repository_setup" => pc = "log_analyzer"
      /\ pc = "repository_setup" => pc' = "fix_loop"
      /\ (~InFixLoop /\ InFixLoop') => (pc = "repository_setup" /\ pc' = "fix_loop")
      /\ InFixLoop => (InFixLoop' \/ pc' = "end")
      /\ InFixLoop' => {"errors", "repo_setup_info"} \subseteq DOMAIN state'
      /\ pc' = "done" => pc = "end"
      /\ pc = "end" => pc' = "done"
      /\ (InFixLoop' \/ pc' = "end") => "pr_details" \notin DOMAIN state'
      /\ ("pr_details" \notin DOMAIN state /\ "pr_details" \in DOMAIN state') =>
           (pc = "end" /\ pc' = "done")
    ]_<<pc, times_looped>>

\* The whole workflow has run: analysis, setup, a loop of two iterations,
\* and the finalizer.
C21_Witness ==
  /\ pc = "done"
  /\ times_looped >= 1
  /\ {"errors", "repo_setup_info", "loop_decision", "pr_details"} \subseteq DOMAIN state

\* The loop has returned: the finalizer is about to run or has run.
LoopReturned == pc \in {"end", "done"}

Verdict == state["build_verification_result"]

\* C23: whenever the loop has terminated as converged, the aggregated result
\* has no remaining errors (error_count is 0 and the combined list is
\* empty), and in no state does a verdict with build_successful true hold a
\* non-empty remaining_errors list.
C23_ConvergedHasNoErrors ==
  /\ Converged =>
       /\ Verdict.build_successful
       /\ Verdict.error_count = 0 /\ Verdict.remaining_errors = <<>>
       /\ state["error_count"] = 0 /\ state["remaining_errors"] = <<>>
  /\ ("build_verification_result" \in DOMAIN state /\ Verdict.build_successful) =>
       (Verdict.remaining_errors = <<>> /\ Verdict.error_count = 0)

\* The loop converged in its second iteration, after a first one that left
\* errors.
C23_Witness ==
  /\ Converged
  /\ times_looped = 1
  /\ Verdict.build_successful
  /\ Verdict.error_count = 0

\* The keys the Aggregator reads: the answers of the syntax check and of the
\* policy check.
AggregatorInputKeys ==
  {"terraform_valid", "terraform_errors", "terraform_validation_message",
   "terraform_validation_result", "opa_output", "opa_violations", "opa_violation_count",
   "opa_evaluation_message", "opa_evaluation_result"}

\* C24: an Aggregator run stores as remaining_errors the syntax error list
\* followed by the policy violation list as they stood when it started, and
\* as error_count the sum of their lengths; it runs no subprocess (the
\* record of the latest tool call and the provider directory are untouched)
\* and changes no key of the syntax or policy answers.
C24_AggregatorCombinesInputs ==
  [][ pc = "verification_aggregator" =>
        /\ state'["remaining_errors"] = state["terraform_errors"] \o state["opa_violations"]
        /\ state'["build_verification_result"].remaining_errors = state'["remaining_errors"]
        /\ state'["error_count"] = Len(state["terraform_errors"]) + Len(state["opa_violations"])
        /\ state'["build_verification_result"].error_count = state'["error_count"]
        /\ last_call' = last_call
        /\ dot_terraform' = dot_terraform
        /\ \A k \in AggregatorInputKeys :
             /\ k \in DOMAIN state' <=> k \in DOMAIN state
             /\ k \in DOMAIN state => state'[k] = state[k]
    ]_<<pc, times_looped>>

\* The Aggregator has combined the violations of a policy evaluation that
\* ran in the second iteration, after a first iteration stopped by syntax
\* errors.
C24_Witness ==
  /\ pc = "loop_decision"
  /\ times_looped = 1
  /\ state["opa_violations"] # <<>>
  /\ state["remaining_errors"] = state["opa_violations"]
  /\ state["error_count"] = Len(state["opa_violations"])
  /\ last_call.tool = "run_opa_eval"

\* The steps of one run_opa_eval call in the order of the code, without
\* and with the initialization.
OpaSteps == <<"plan", "show", "opa">>
OpaStepsWithInit == <<"init">> \o OpaSteps

\* The commands of the subprocesses a call started, in the order it started
\* them.
CmdSeq(procs) == [n \in 1..Len(procs) |-> procs[n].cmd]

\* C25: every run_opa_eval call starts with init exactly when the provider
\* directory is missing, then runs plan, show and the policy engine in that
\* order, each only when every earlier step of the same call has exited
\* zero; so a call that evaluates, and every call that succeeds, has
\* generated its plan in the same call.
C25_FreshPlanInOrder ==
  [][ (pc = "opa_evaluator" /\ last_call'.tool = "run_opa_eval") =>
        LET procs == last_call'.procs
            steps == IF dot_terraform THEN OpaSteps ELSE OpaStepsWithInit
        IN /\ Len(procs) \in 1..Len(steps)
           /\ CmdSeq(procs) = SubSeq(steps, 1, Len(procs))
           /\ \A n \in 1..(Len(procs) - 1) : ~procs[n].raised /\ procs[n].rc = 0
           /\ ("opa" \in Cmds(procs) \/ "show" \in Cmds(procs)) =>
                \E n \in 1..Len(procs) :
                  procs[n].cmd = "plan" /\ ~procs[n].raised /\ procs[n].rc = 0
           /\ last_call'.success =>
                /\ Len(procs) = Len(steps)
                /\ \A n \in 1..Len(procs) : ~procs[n].raised /\ procs[n].rc = 0
    ]_<<pc, times_looped>>

\* In the second iteration a call has run plan, show and the policy engine
\* without init, the provider directory being there since the first
\* iteration.
C25_Witness ==
  /\ pc = "verification_aggregator"
  /\ times_looped = 1
  /\ last_call.tool = "run_opa_eval"
  /\ last_call.success
  /\ CmdSeq(last_call.procs) = OpaSteps

\* An init has succeeded on this working copy: run_opa_eval has recorded
\* it, or the latest tool call ran an init that exited zero.
InitSucceeded ==
  \/ "terraform_initialized" \in DOMAIN state
  \/ \E n \in 1..Len(last_call.procs) :
       last_call.procs[n].cmd = "init" /\ ProcOk(last_call.procs[n])

\* The stages whose tools start terraform.
TerraformCallers == {"syntax_verifier", "terraform_validator", "opa_evaluator"}

\* C26: initialization is check-before-act across the calls of
\* validate_terraform and run_opa_eval on the working copy: once an init
\* has succeeded, no later call of either operation runs init again.
C26_InitOnlyOnce ==
  [][ (InitSucceeded /\ pc \in TerraformCallers /\ last_call'.tool # "none") =>
        "init" \notin Cmds(last_call'.procs)
    ]_<<pc, times_looped>>

\* The keys that hold the answer of the policy evaluation.
PolicyKeys == {"opa_output", "opa_violations", "opa_violation_count", "opa_evaluation_message"}

\* C27: a run of the syntax-fix stage (its validation step and its
\* fix-and-revalidate step) leaves the policy-related state as it was:
\* opa_output, opa_violations, opa_violation_count and
\* opa_evaluation_message are present or absent as before and hold the same
\* values, whether or not the stage rewrites a file.
C27_SyntaxFixKeepsPolicyState ==
  [][ (pc \in {"syntax_verifier", "syntax_verifier_fix"}) =>
        (\A k \in PolicyKeys :
           /\ (k \in DOMAIN state') <=> (k \in DOMAIN state)
           /\ (k \in DOMAIN state) => (state'[k] = state[k]))
    ]_<<pc, times_looped>>

\* In the second iteration the stage has rewritten a file while the
\* violations found in the first iteration are still in the state.
C27_Witness ==
  /\ pc = "terraform_validator"
  /\ times_looped = 1
  /\ state["syntax_verification_result"] = "Fixed syntax errors"
  /\ "files_modified" \in DOMAIN state
  /\ state["opa_violations"] # <<>>
  /\ state["opa_violation_count"] = Len(state["opa_violations"])

\* The number of loop iterations the driver has started: the completed
\* ones and the one whose stages are running or in which the loop was left.
IterationsStarted == times_looped + (IF pc \in LoopStages \/ Converged THEN 1 ELSE 0)

VerificationPcs ==
  {"terraform_validator", "opa_evaluator", "verification_aggregator", "loop_decision"}

\* C29: of the stages of the fix loop only error_remediation and
\* syntax_verifier hold write_file, and no step from the start of
\* terraform_validator to the Loop Decision rewrites the source files or
\* changes the list of written files; so after each of these steps, and
\* when the loop is left as converged, the files are as they were when
\* terraform_validator started.
C29_VerificationLeavesSourceFiles ==
  [][ /\ \A n \in 1..Len(FixLoopStages) :
           ("write_file" \in ToolsOf(FixLoopStages[n])) <=>
             (FixLoopStages[n] \in {"error_remediation", "syntax_verifier"})
      /\ (pc \in VerificationPcs) =>
           /\ source_files' = SourceUnchanged
           /\ Get(state', "files_modified", <<>>) = Get(state, "files_modified", <<>>)
      /\ Converged' => source_files' = SourceUnchanged
    ]_<<pc, times_looped>>

\* The loop converged in its second iteration on files that syntax_verifier
\* rewrote in that iteration.
C29_Witness ==
  /\ Converged
  /\ times_looped = 1
  /\ source_files = SourceUnchanged
  /\ Get(state, "files_modified", <<>>) # <<>>
  /\ state["syntax_verification_result"] = "Fixed syntax errors"
  /\ state["build_verification_result"].build_successful

\* The call was made with a token: it began by reading the origin URL.
PushedWithToken(call) ==
  call.tool = "git_push" /\ Len(call.procs) >= 1 /\ call.procs[1].cmd = "get-url"

\* The call ran the set-url that restores the original URL, after the push,
\* and it did not exit zero.
RestoreFailed(call) ==
  /\ Len(call.procs) >= 3
  /\ call.procs[Len(call.procs)].cmd = "set-url"
  /\ ~ProcOk(call.procs[Len(call.procs)])

\* C30: a git_push call made with a token leaves the origin remote URL of
\* the working copy equal to the value it had before the call on every
\* return path the claim names (push success, push failure, set-url
\* failure, timeout or other exception during the push); the case of a
\* restoring set-url that itself fails is left aside.
C30_PushRestoresOrigin ==
  [][ (pc = "git_push" /\ PushedWithToken(last_call') /\ ~RestoreFailed(last_call')) =>
        origin_url' = origin_url
    ]_<<pc, times_looped>>
====
